---- MODULE Spec2Model ----
(***************************************************************************)
(* cmus-rpc-py (src/main.py): a sequential program that polls the cmus     *)
(* player with `cmus-remote -Q` and mirrors its state into Discord rich    *)
(* presence.  The module models                                            *)
(*   - main(): start-up, the poll loop and the teardown (Spec), also under *)
(*     every setting of silent and debug (SpecOutput) and of timestamp and *)
(*     song_time (SpecClock),                                              *)
(*   - to_h_m_s() as a pure function (SpecTime),                           *)
(*   - custom_format() as a pure function (SpecFormat),                    *)
(*   - cmus_status() with title_from_path() as a pure function of the      *)
(*     output of cmus-remote (SpecStatus).                                 *)
(***************************************************************************)
EXTENDS Integers, Sequences, FiniteSets, TLC

VARIABLES
    config,         \* resolved configuration, fixed for the process lifetime
    pc,             \* position of main(): start, connect, loop, closing, exited
    exit_status,    \* -1 while running, else the status the process ended with
    song_path,      \* main(): song_path
    playing,        \* main(): playing
    song_path_old,  \* main(): song_path_old
    playing_old,    \* main(): playing_old
    timer,          \* main(): timer
    btn,            \* main(): button_one, button_two, button_url_one, button_url_two
    rpc_open,       \* the presence connection is established and not yet closed
    connects,       \* number of rpc.connect() calls made
    closes,         \* number of rpc.close() calls made
    pushes,         \* number of rpc.update() calls made
    pushed_ok,      \* at least one rpc.update() call returned normally
    last_push,      \* <<>> or <<p>>, p the arguments of the latest rpc.update()
    last,           \* what the latest loop iteration did
    same_ticks,     \* N when N iterations ran and every probe so far returned
                    \* the initial (path, playing) pair; -1 once a probe
                    \* returned another pair or did not return
    same_pushes,    \* the pushes made during those N iterations; -1 likewise
    how,            \* why the process left the loop or ended
    init_query,     \* <<>> or <<a>>, a the kind of answer the initial probe's
                    \* query got: whether stderr had text, whether a file line came
    connect_ok,     \* <<>> or <<b>>, b whether rpc.connect() returned normally
    song_data,      \* main(): song_data, <<>> for None, else <<record>>
    play_time,      \* main(): play_time, <<>> for None, else <<seconds>>
    entry_time,     \* the play_time computed at lines 239-242
    now,            \* the latest clock reading, in seconds
    since_probe,    \* iterations completed since the latest one that probed
    stdout,         \* the messages printed so far
    query,          \* cmus_status: the answer of cmus-remote and no_data
    probe,          \* cmus_status: <<>> or <<result>>
    secs,           \* to_h_m_s: argument
    hms,            \* to_h_m_s: <<>> or <<result>>
    tpl,            \* custom_format: template
    rec,            \* custom_format: song_data
    out             \* custom_format: <<>> or <<result>>

vars == <<config, pc, exit_status, song_path, playing, song_path_old, playing_old,
          timer, btn, rpc_open, connects, closes, pushes, pushed_ok, last_push,
          last, same_ticks, same_pushes, how, init_query, connect_ok,
          song_data, play_time, entry_time, now, since_probe, stdout,
          secs, hms, tpl, rec, out, query, probe>>

mainVars == <<config, pc, exit_status, song_path, playing, song_path_old,
              playing_old, timer, btn, rpc_open, connects, closes, pushes,
              pushed_ok, last_push, last, same_ticks, same_pushes, how,
              init_query, connect_ok, song_data, play_time, entry_time, now,
              since_probe, stdout>>

statusVars == <<query, probe>>

timeVars == <<secs, hms>>

formatVars == <<tpl, rec, out>>

-----------------------------------------------------------------------------
(* Bounds of the model *)

\* iterations followed while every probe returns the initial pair
MaxTicks == 52

\* rpc.update() calls followed in one run
MaxPushes == 3

\* to_h_m_s is applied to 0 .. MaxSeconds
MaxSeconds == 3700

\* templates of at most MaxTplLen characters
MaxTplLen == 3

\* metadata values of at most MaxValLen characters
MaxValLen == 4

-----------------------------------------------------------------------------
(* Values *)

\* Python's None
None == "<None>"

Min(a, b) == IF a <= b THEN a ELSE b

\* a clock reading at start-up, in seconds
Epoch == 1000

\* seconds the clock can have gone on between two readings
Advance == {0, 5}

\* configured --interval values
Intervals == {0, 1, 15}

\* a configured text: empty or not
Labels(x) == {"", x}

\* the file of the loaded track
Paths == {"/m/A - x.mp3", "/m/B - y.mp3"}

\* the "tag artist" and "tag title" lines the player prints for a file: <<>>
\* for no such line, <<v>> for a line with the value v
TagsOf(p) ==
    IF p = "/m/A - x.mp3" THEN [artist |-> <<"A">>, title |-> <<"x">>]
    ELSE [artist |-> <<"B">>, title |-> <<"y">>]

\* the "position" line.  main() reads the position at line 300 only, with
\* timestamp and song_time both on; other runs follow one value.
Positions == IF config.timestamp /\ config.song_time THEN {"0", "65"} ELSE {"0"}

\* an answer on stderr, and an output with no "file" line
ErrorAnswer ==
    [err |-> TRUE, file |-> None, status |-> "stopped", artist |-> <<>>,
     title |-> <<>>, position |-> "0"]

NoFileAnswer == [ErrorAnswer EXCEPT !.err = FALSE]

\* what `cmus-remote -Q` can answer: something on stderr, an output with no
\* "file" line (no track loaded), or an output with a file, a status, the
\* tags of the file and a position
Queries ==
    {ErrorAnswer, NoFileAnswer}
    \cup {[err |-> FALSE, file |-> p, status |-> st, artist |-> TagsOf(p).artist,
           title |-> TagsOf(p).title, position |-> pos] :
             p \in Paths, st \in {"playing", "paused"}, pos \in Positions}

\* the answers to a query that is made, one placeholder for a query that is not
AnswersIf(made) == IF made THEN Queries ELSE {ErrorAnswer}

\* the built-in configuration (defaults, lines 12-28) with the argparse
\* default of --debug (lines 465-470)
defaults ==
    [interval |-> 15, silent |-> FALSE, debug |-> FALSE, timestamp |-> FALSE,
     song_time |-> FALSE, no_unknown |-> FALSE,
     playing_image |-> "playing1", paused_image |-> "paused1",
     button_one |-> "", button_two |-> "", button_url_one |-> "",
     button_url_two |-> ""]

\* the configurations the runs start from: every interval, image and button
\* setting, the flags as built in
Configs ==
    {[defaults EXCEPT !.interval = i, !.playing_image = pi, !.paused_image = pa,
                      !.button_one = b1, !.button_two = b2,
                      !.button_url_one = u1, !.button_url_two = u2] :
        i \in Intervals, pi \in Labels("playing1"), pa \in Labels("paused1"),
        b1 \in Labels("one"), b2 \in Labels("two"),
        u1 \in Labels("url1"), u2 \in Labels("url2")}

\* no loop iteration ran yet
NoTick ==
    [probes |-> <<>>, record |-> <<>>, raised |-> FALSE, changed |-> FALSE,
     old_playing |-> None, pushed |-> FALSE, start |-> 0, had_push |-> FALSE]

\* durations of a day and more: 24 h, 25 h, 999 h, 1000 h
LongTimes == {86400, 90000, 3596400, 3600000}

\* the strings of at most n characters over the alphabet cs
RECURSIVE Strings(_, _)
Strings(cs, n) ==
    IF n = 0 THEN {""}
    ELSE Strings(cs, n - 1) \cup {s \o c : s \in Strings(cs, n - 1), c \in cs}

\* characters of the templates and of the metadata values
TplChars == {"%", "/", "t", "a"}
ValChars == {"%", "/", "5"}

Templates == Strings(TplChars, MaxTplLen)

\* song_data; duration and position hold int() of the digits cmus printed
Records ==
    [artist : {"Ar", "%t"}, album : {"Al"}, title : Strings(ValChars, MaxValLen),
     genre : {"Ge"}, date : {"1999"}, duration : {200}, position : {65}]

NoRecord ==
    [artist |-> "", album |-> "", title |-> "", genre |-> "", date |-> "",
     duration |-> 0, position |-> 0]

-----------------------------------------------------------------------------
(* to_h_m_s and custom_format *)

\* str() of a digit
Digit(d) == SubSeq("0123456789", d + 1, d + 1)

\* str() of a non-negative int
RECURSIVE str(_)
str(n) == IF n < 10 THEN Digit(n) ELSE str(n \div 10) \o Digit(n % 10)

\* lines 137-142: a value under 10 becomes the str "0" + str(value), any
\* other stays an int; text is what an f-string prints for it
Pad(n) ==
    [is_str |-> n < 10, n |-> n, text |-> IF n < 10 THEN "0" \o str(n) ELSE str(n)]

\* truth value of such a value: a str is true when not empty, an int when not 0
Truthy(v) == IF v.is_str THEN Len(v.text) > 0 ELSE v.n # 0

\* to_h_m_s(seconds), lines 128-145
to_h_m_s(seconds) ==
    LET m0 == seconds \div 60
        s == seconds % 60
        h0 == IF m0 # 0 THEN m0 \div 60 ELSE 0
        m == IF m0 # 0 THEN m0 % 60 ELSE m0
        h == IF h0 # 0 THEN Min(h0 % 24, 999) ELSE h0
    IN  IF Truthy(Pad(h))
        THEN Pad(h).text \o ":" \o Pad(m).text \o ":" \o Pad(s).text
        ELSE Pad(m).text \o ":" \o Pad(s).text

\* str.replace(old, new) for a non-empty old: left to right, not overlapping
RECURSIVE replace(_, _, _)
replace(s, old, new) ==
    IF Len(s) < Len(old) THEN s
    ELSE IF SubSeq(s, 1, Len(old)) = old
    THEN new \o replace(SubSeq(s, Len(old) + 1, Len(s)), old, new)
    ELSE SubSeq(s, 1, 1) \o replace(Tail(s), old, new)

\* custom_format(string, song_data), lines 149-165
custom_format(string, data) ==
    LET s1 == replace(string, "%%", "/%%/")
        s2 == replace(s1, "%a", data.artist)
        s3 == replace(s2, "%l", data.album)
        s4 == replace(s3, "%t", data.title)
        s5 == replace(s4, "%g", data.genre)
        s6 == replace(s5, "%y", data.date)
        s7 == replace(s6, "%u", to_h_m_s(data.duration))
        s8 == replace(s7, "%p", to_h_m_s(data.position))
    IN  replace(s8, "/%%/", "%")

-----------------------------------------------------------------------------
(* title_from_path and cmus_status *)

\* int() of a string of digits
RECURSIVE int(_)
int(t) ==
    IF t = "" THEN 0
    ELSE 10 * int(SubSeq(t, 1, Len(t) - 1))
         + (CHOOSE d \in 0..9 : Digit(d) = SubSeq(t, Len(t), Len(t)))

\* str.find(sep) + 1: where sep first starts in s, 0 when it is not in s
RECURSIVE find(_, _)
find(s, sep) ==
    IF Len(s) < Len(sep) THEN 0
    ELSE IF SubSeq(s, 1, Len(sep)) = sep THEN 1
    ELSE LET i == find(Tail(s), sep) IN IF i = 0 THEN 0 ELSE i + 1

\* str.split(sep)
RECURSIVE split(_, _)
split(s, sep) ==
    LET i == find(s, sep) IN
    IF i = 0 THEN <<s>>
    ELSE <<SubSeq(s, 1, i - 1)>> \o split(SubSeq(s, i + Len(sep), Len(s)), sep)

\* str.strip(c) for one character c
RECURSIVE strip(_, _)
strip(s, c) ==
    IF s = "" THEN s
    ELSE IF SubSeq(s, 1, 1) = c THEN strip(Tail(s), c)
    ELSE IF SubSeq(s, Len(s), Len(s)) = c THEN strip(SubSeq(s, 1, Len(s) - 1), c)
    ELSE s

\* where c last is in s, 0 when it is not
RECURSIVE rfind(_, _)
rfind(s, c) ==
    IF s = "" THEN 0
    ELSE IF SubSeq(s, Len(s), Len(s)) = c THEN Len(s)
    ELSE rfind(SubSeq(s, 1, Len(s) - 1), c)

\* os.path.splitext(path)[0]: the path up to the last "." of its last
\* component, when a character other than "." stands before that "."
splitext_root(path) ==
    LET sep == rfind(path, "/")
        dot == rfind(path, ".")
    IN  IF dot > sep + 1
           /\ \E k \in (sep + 1)..(dot - 1) : SubSeq(path, k, k) # "."
        THEN SubSeq(path, 1, dot - 1)
        ELSE path

\* title_from_path(path), lines 65-77; song_name[-2] of a path of one
\* component raises IndexError
title_from_path(path) ==
    LET song_name == split(strip(splitext_root(path), "/"), "/")
        name == song_name[Len(song_name)]
        by_spaced == split(name, " - ")
        song_name_split == IF Len(by_spaced) < 2 THEN split(name, "-") ELSE by_spaced
    IN  IF Len(song_name_split) >= 2
        THEN [raised |-> FALSE, artist |-> song_name_split[1],
              title |-> song_name_split[2]]
        ELSE IF Len(song_name) < 2
        THEN [raised |-> TRUE, artist |-> "", title |-> ""]
        ELSE [raised |-> FALSE, artist |-> song_name[Len(song_name) - 1],
              title |-> name]

\* a probe that did not return: an uncaught exception
ProbeRaised == [raised |-> TRUE, path |-> None, playing |-> None, song_data |-> <<>>]

\* line 199
no_data == IF config.no_unknown THEN "" ELSE "Unknown"

\* cmus_status(no_data): (song_path, playing, song_data), or an uncaught
\* exception.  song_data is <<>> for None, else <<d>>; of the record d the
\* model keeps artist, title and position.  With no "file" line song_path
\* (and duration) are never bound, and the function raises UnboundLocalError
\* at line 115 or 122.
cmus_status(q, nd) ==
    IF q.err
    THEN [raised |-> FALSE, path |-> None, playing |-> None, song_data |-> <<>>]
    ELSE IF q.file = None
    THEN ProbeRaised
    ELSE LET artist == IF q.artist = <<>> THEN nd ELSE q.artist[1]
             title == IF q.title = <<>> THEN nd ELSE q.title[1]
             fallback == artist = "Unknown" \/ title = "Unknown"
             derived == IF fallback THEN title_from_path(q.file)
                        ELSE [raised |-> FALSE, artist |-> artist, title |-> title]
         IN  IF derived.raised THEN ProbeRaised
             ELSE [raised |-> FALSE, path |-> q.file,
                   playing |-> IF q.status = "playing" THEN "True" ELSE "False",
                   song_data |-> <<[artist |-> derived.artist,
                                    title |-> derived.title,
                                    position |-> q.position]>>]

\* what cmus_status(no_data) can return or raise when it is called, one
\* placeholder when it is not
ProbeResults(made) == {cmus_status(q, no_data) : q \in AnswersIf(made)}

-----------------------------------------------------------------------------
(* main(): helpers *)

\* `not song_path` that takes None for a path
not_song_path_empty(p) == p = ""

\* `not song_path`
not_song_path(p) == p = None \/ p = ""

\* lines 260-271 without the break
LostNever(changed, sp) == FALSE

\* lines 260-271: the iteration ends the loop (break)
Lost(changed, sp) == changed /\ not_song_path(sp)

\* update_rpc without the clamp of line 247
update_rpc_unclamped == 10 * config.interval

\* rpc_interval = min(config["interval"], 5); update_rpc = int(rpc_interval / delay)
update_rpc == 10 * Min(config.interval, 5)

\* cmus_interval = 2; check_status = int(cmus_interval / delay)
check_status == 20

\* available_small_images is bound (to True) only when both images are set
available_small_images == config.playing_image # "" /\ config.paused_image # ""

\* lines 231-236: labels and URLs are promoted independently of each other
ButtonSetup(c) ==
    [one |-> IF c.button_one = "" THEN c.button_two ELSE c.button_one,
     two |-> IF c.button_one = "" THEN "" ELSE c.button_two,
     url_one |-> IF c.button_url_one = "" THEN c.button_url_two ELSE c.button_url_one,
     url_two |-> IF c.button_url_one = "" THEN "" ELSE c.button_url_two]

\* lines 273-293: the buttons of a push, <<>> for None.  A label or url is
\* the configured template; the push renders it with the record of the push.
Buttons(b) ==
    IF b.one # "" /\ b.url_one # ""
    THEN IF b.two = ""
         THEN <<[label |-> b.one, url |-> b.url_one]>>
         ELSE <<[label |-> b.one, url |-> b.url_one],
                [label |-> b.two, url |-> b.url_two]>>
    ELSE <<>>

\* lines 295-299
SmallImage(pl) == IF pl = "True" THEN config.playing_image ELSE config.paused_image

\* the (path, playing) pair of a probe result
Pair(r) == [path |-> r.path, playing |-> r.playing]

\* the probes of an iteration without the probe of line 259
ProbesWhenDue(due, check, r1, r2) == IF due THEN <<r1>> ELSE <<>>

\* lines 255-259: the probes one iteration makes, in order; a probe that
\* raises ends the iteration
Probes(due, check, r1, r2) ==
    IF due /\ r1.raised THEN <<r1>>
    ELSE (IF due THEN <<r1>> ELSE <<>>) \o (IF check THEN <<r2>> ELSE <<>>)

-----------------------------------------------------------------------------
(* main(): the steps *)

\* print(msg) under a condition: what the call adds to standard output
Say(cond, msg) == IF cond THEN {msg} ELSE {}

\* that condition without `or debug`
ReportsUnlessSilent == ~config.silent

\* `not silent or debug`, the condition of lines 202, 211, 214, 269 and 313
Reports == ~config.silent \/ config.debug

\* int(time.time()) when the call is made: the clock stood still or went on
Readings(made) == IF made THEN {now + d : d \in Advance} ELSE {now}

\* play_time left as it was at loop entry
PlayTimeKept(pt, t, d) == pt

\* lines 299-300: play_time for a push, read at clock value t for record d
PlayTime(pt, t, d) ==
    IF config.song_time /\ config.timestamp THEN <<t - int(d.position)>> ELSE pt

\* lines 190-204: the debug print of the configuration and the initial probe
InitialProbe ==
    /\ pc = "start"
    /\ \E q \in Queries :
       \E r \in {cmus_status(q, no_data)} :
        /\ init_query' = <<[err |-> q.err, has_file |-> q.file # None]>>
        /\ IF r.raised
           THEN /\ pc' = "exited" /\ exit_status' = 1 /\ how' = "probe_raised"
                /\ stdout' = stdout \cup Say(config.debug, "--- CONFIG ---")
                /\ UNCHANGED <<song_path, playing, song_data>>
           ELSE IF not_song_path(r.path)
           THEN /\ pc' = "exited" /\ exit_status' = 0 /\ how' = "no_player"
                /\ stdout' = stdout \cup Say(config.debug, "--- CONFIG ---")
                                    \cup Say(Reports, "Cant connect to cmus, exitting...")
                /\ song_path' = r.path /\ playing' = r.playing
                /\ song_data' = r.song_data
           ELSE /\ pc' = "connect" /\ UNCHANGED <<exit_status, how>>
                /\ stdout' = stdout \cup Say(config.debug, "--- CONFIG ---")
                /\ song_path' = r.path /\ playing' = r.playing
                /\ song_data' = r.song_data
    /\ UNCHANGED <<config, song_path_old, playing_old, timer, play_time, btn,
                   rpc_open, connects, closes, pushes, pushed_ok, last_push, last,
                   same_ticks, same_pushes, since_probe, connect_ok, now,
                   entry_time>>
    /\ UNCHANGED <<timeVars, formatVars, statusVars>>

\* lines 207-251: rpc.connect() and the set-up of the loop
Connect ==
    /\ pc = "connect"
    /\ connects' = connects + 1
    /\ \E ok \in BOOLEAN :
        /\ connect_ok' = <<ok>>
        /\ IF ok
           THEN /\ rpc_open' = TRUE
                /\ stdout' = stdout \cup Say(Reports, "Connected to Discord")
                /\ btn' = ButtonSetup(config)
                /\ \E t \in Readings(config.timestamp) :
                     /\ now' = t
                     /\ play_time' = IF config.timestamp THEN <<t>> ELSE <<>>
                     /\ entry_time' = IF config.timestamp THEN <<t>> ELSE <<>>
                /\ song_path_old' = song_path
                /\ playing_old' = playing
                /\ timer' = 0
                /\ pc' = "loop"
                /\ UNCHANGED <<exit_status, how>>
           ELSE \* lines 210-213: sys.exit()
                /\ pc' = "exited" /\ exit_status' = 0 /\ how' = "connect_failed"
                /\ stdout' = stdout \cup Say(Reports, "Can't connect to Discord, exitting...")
                /\ UNCHANGED <<rpc_open, btn, song_path_old, playing_old, timer,
                               play_time, now, entry_time>>
    /\ UNCHANGED <<config, song_path, playing, song_data, closes, pushes,
                   pushed_ok, last_push, last, same_ticks, same_pushes,
                   since_probe, init_query>>
    /\ UNCHANGED <<timeVars, formatVars, statusVars>>

\* lines 254-327: one iteration of the loop
Tick ==
    /\ pc = "loop"
    /\ same_ticks < MaxTicks
    /\ pushes < MaxPushes
    /\ \E r1 \in ProbeResults(timer >= update_rpc) :
       \E r2 \in ProbeResults((IF timer >= update_rpc THEN 0 ELSE timer) % check_status = 0) :
       \E push_ok \in BOOLEAN :
        LET due == timer >= update_rpc
            t1 == IF due THEN 0 ELSE timer
            check == t1 % check_status = 0
            probes == Probes(due, check, r1, r2)
            n == Len(probes)
            raised == n > 0 /\ probes[n].raised
            sp == IF n = 0 THEN song_path ELSE probes[n].path
            pl == IF n = 0 THEN playing ELSE probes[n].playing
            sd == IF n = 0 THEN song_data ELSE probes[n].song_data
            changed == sp # song_path_old \/ pl # playing_old
            t2 == IF changed THEN 0 ELSE t1
            lost == Lost(changed, sp)
            push == ~lost /\ t2 = 0
            unbound == push /\ ~available_small_images
            same == /\ same_ticks >= 0
                    /\ \A i \in 1..n :
                         Pair(probes[i]) = [path |-> song_path_old, playing |-> playing_old]
        IN
        IF raised
        THEN \* cmus_status raised: uncaught, the interpreter exits with 1
             /\ pc' = "exited" /\ exit_status' = 1 /\ how' = "probe_raised"
             /\ last' = [probes |-> [i \in 1..(n-1) |-> Pair(probes[i])],
                         record |-> <<>>, raised |-> TRUE,
                         changed |-> FALSE, old_playing |-> playing_old,
                         pushed |-> FALSE, start |-> timer,
                         had_push |-> pushed_ok]
             /\ same_ticks' = -1 /\ same_pushes' = -1
             /\ since_probe' = 0
             /\ UNCHANGED <<song_path, playing, song_data, song_path_old,
                            playing_old, timer, play_time, pushes, pushed_ok,
                            last_push, stdout, now>>
        ELSE
             /\ song_path' = sp
             /\ playing' = pl
             /\ song_data' = sd
             /\ song_path_old' = IF changed THEN sp ELSE song_path_old
             /\ playing_old' = IF changed THEN pl ELSE playing_old
             /\ since_probe' = IF n > 0 THEN 0 ELSE since_probe + 1
             /\ last' = [probes |-> [i \in 1..n |-> Pair(probes[i])],
                         record |-> IF n = 0 THEN <<>> ELSE probes[n].song_data,
                         raised |-> FALSE,
                         changed |-> changed,
                         old_playing |-> playing_old,
                         pushed |-> push /\ ~unbound,
                         start |-> timer,
                         had_push |-> pushed_ok]
             /\ IF lost
                THEN \* lines 267-271: break
                     /\ timer' = 0
                     /\ pc' = "closing" /\ how' = "player_lost"
                     /\ stdout' = stdout
                            \cup Say(config.debug, "--- STATE CHANGE ---")
                            \cup Say(Reports, "Connection to cmus lost, exitting...")
                     /\ UNCHANGED <<exit_status, pushes, pushed_ok, last_push,
                                    play_time, now>>
                     /\ same_ticks' = -1 /\ same_pushes' = -1
                ELSE IF unbound
                THEN \* line 295: UnboundLocalError, uncaught
                     /\ timer' = t2
                     /\ pc' = "exited" /\ exit_status' = 1 /\ how' = "unbound_local"
                     /\ stdout' = stdout
                            \cup Say(changed /\ config.debug, "--- STATE CHANGE ---")
                     /\ UNCHANGED <<pushes, pushed_ok, last_push, play_time, now>>
                     /\ same_ticks' = IF same THEN same_ticks ELSE -1
                     /\ same_pushes' = IF same THEN same_pushes ELSE -1
                ELSE IF push
                THEN \* lines 299-324: rpc.update()
                     /\ pushes' = pushes + 1
                     /\ \E t \in Readings(config.song_time /\ config.timestamp) :
                          /\ now' = t
                          /\ play_time' = PlayTime(play_time, t, sd[1])
                          /\ last_push' = <<[path |-> sp, playing |-> pl,
                                             song_data |-> sd,
                                             small_image |-> SmallImage(pl),
                                             buttons |-> Buttons(btn),
                                             start |-> PlayTime(play_time, t, sd[1]),
                                             at |-> t,
                                             ok |-> push_ok]>>
                     /\ same_ticks' = IF same THEN same_ticks + 1 ELSE -1
                     /\ same_pushes' = IF same THEN same_pushes + 1 ELSE -1
                     /\ IF push_ok
                        THEN /\ pushed_ok' = TRUE
                             /\ timer' = t2 + 1
                             /\ stdout' = stdout
                                    \cup Say(changed /\ config.debug, "--- STATE CHANGE ---")
                                    \cup Say(config.debug, "--- RPC UPDATE ---")
                             /\ UNCHANGED <<pc, exit_status, how>>
                        ELSE \* BrokenPipeError: break
                             /\ timer' = t2
                             /\ pc' = "closing" /\ how' = "link_lost"
                             /\ stdout' = stdout
                                    \cup Say(changed /\ config.debug, "--- STATE CHANGE ---")
                                    \cup Say(Reports, "Connection to Discord lost, exitting...")
                             /\ UNCHANGED <<exit_status, pushed_ok>>
                ELSE /\ timer' = t2 + 1
                     /\ same_ticks' = IF same THEN same_ticks + 1 ELSE -1
                     /\ same_pushes' = IF same THEN same_pushes ELSE -1
                     /\ UNCHANGED <<pc, exit_status, how, pushes, pushed_ok,
                                    last_push, play_time, stdout, now>>
    /\ UNCHANGED <<config, btn, rpc_open, connects, closes, init_query,
                   connect_ok, entry_time>>
    /\ UNCHANGED <<timeVars, formatVars, statusVars>>

\* line 328: rpc.close(), then main() returns and the interpreter exits with 0
Close ==
    /\ pc = "closing"
    /\ closes' = closes + 1
    /\ rpc_open' = FALSE
    /\ pc' = "exited"
    /\ exit_status' = 0
    /\ UNCHANGED <<config, song_path, playing, song_data, song_path_old,
                   playing_old, timer, play_time, btn, connects, pushes,
                   pushed_ok, last_push, last, same_ticks, same_pushes,
                   since_probe, how, init_query, connect_ok, stdout, now,
                   entry_time>>
    /\ UNCHANGED <<timeVars, formatVars, statusVars>>

\* lines 331-333, 482: SIGINT runs sys.exit() in the handler; SystemExit
\* passes through main(), which has no finally, so line 328 is not run
sigint_handler ==
    /\ pc \in {"start", "connect", "loop", "closing"}
    /\ pc' = "exited"
    /\ exit_status' = 0
    /\ how' = "sigint"
    /\ UNCHANGED <<config, song_path, playing, song_data, song_path_old,
                   playing_old, timer, play_time, btn, rpc_open, connects,
                   closes, pushes, pushed_ok, last_push, last, same_ticks,
                   same_pushes, since_probe, init_query, connect_ok, stdout,
                   now, entry_time>>
    /\ UNCHANGED <<timeVars, formatVars, statusVars>>

\* main() has not started
MainAtStart ==
    /\ pc = "start"
    /\ exit_status = -1
    /\ song_path = None
    /\ playing = None
    /\ song_data = <<>>
    /\ song_path_old = None
    /\ playing_old = None
    /\ timer = 0
    /\ play_time = <<>>
    /\ btn = [one |-> "", two |-> "", url_one |-> "", url_two |-> ""]
    /\ rpc_open = FALSE
    /\ connects = 0
    /\ closes = 0
    /\ pushes = 0
    /\ pushed_ok = FALSE
    /\ last_push = <<>>
    /\ last = NoTick
    /\ same_ticks = 0
    /\ same_pushes = 0
    /\ since_probe = 0
    /\ how = "running"
    /\ init_query = <<>>
    /\ connect_ok = <<>>
    /\ stdout = {}
    /\ now = Epoch
    /\ entry_time = <<>>

\* to_h_m_s is not under test
TimeIdle == secs = 0 /\ hms = <<>>

\* custom_format is not under test
FormatIdle == tpl = "" /\ rec = NoRecord /\ out = <<>>

\* cmus_status is not under test
StatusIdle == query = [answer |-> ErrorAnswer, no_data |-> "Unknown"] /\ probe = <<>>

Init ==
    /\ config \in Configs
    /\ MainAtStart
    /\ TimeIdle
    /\ FormatIdle
    /\ StatusIdle

Next == InitialProbe \/ Connect \/ Tick \/ Close \/ sigint_handler

Spec == Init /\ [][Next]_vars

-----------------------------------------------------------------------------
(* to_h_m_s and custom_format applied to inputs *)

FormatTime ==
    /\ hms = <<>>
    /\ hms' = <<to_h_m_s(secs)>>
    /\ UNCHANGED <<secs, mainVars, formatVars, statusVars>>

InitTime ==
    /\ config = defaults
    /\ MainAtStart
    /\ secs \in (0..MaxSeconds) \cup LongTimes
    /\ hms = <<>>
    /\ FormatIdle
    /\ StatusIdle

NextTime == FormatTime

SpecTime == InitTime /\ [][NextTime]_vars

Render ==
    /\ out = <<>>
    /\ out' = <<custom_format(tpl, rec)>>
    /\ UNCHANGED <<tpl, rec, mainVars, timeVars, statusVars>>

InitFormat ==
    /\ config = defaults
    /\ MainAtStart
    /\ TimeIdle
    /\ tpl \in Templates
    /\ rec \in Records
    /\ out = <<>>
    /\ StatusIdle

NextFormat == Render

SpecFormat == InitFormat /\ [][NextFormat]_vars

-----------------------------------------------------------------------------
(* cmus_status applied to inputs *)

\* files with " - ", with "-" and with neither in the name, and one in the
\* root directory
StatusPaths == {"/m/A - x.mp3", "/m/Dir/C-z.mp3", "/m/Dir/song.mp3", "/song.mp3"}

\* a tag line: none, one with no value, with the value Unknown, with another
StatusTags(v) == {<<>>, <<"">>, <<"Unknown">>, <<v>>}

StatusQueries ==
    {ErrorAnswer, NoFileAnswer}
    \cup {[err |-> FALSE, file |-> p, status |-> st, artist |-> a, title |-> t,
           position |-> "65"] :
             p \in StatusPaths, st \in {"playing", "paused"},
             a \in StatusTags("Ar"), t \in StatusTags("Ti")}

ProbeStatus ==
    /\ probe = <<>>
    /\ probe' = <<cmus_status(query.answer, query.no_data)>>
    /\ UNCHANGED <<query, mainVars, timeVars, formatVars>>

InitStatus ==
    /\ config = defaults
    /\ MainAtStart
    /\ TimeIdle
    /\ FormatIdle
    /\ query \in [answer : StatusQueries, no_data : {"Unknown", ""}]
    /\ probe = <<>>

NextStatus == ProbeStatus

SpecStatus == InitStatus /\ [][NextStatus]_vars

-----------------------------------------------------------------------------
(* main() under the reporting flags and under the timestamp flags *)

\* every setting of silent and debug, with and without a paused image
ConfigsOutput ==
    {[defaults EXCEPT !.interval = i, !.silent = sl, !.debug = db, !.paused_image = pa] :
        i \in {1, 15}, sl \in BOOLEAN, db \in BOOLEAN, pa \in Labels("paused1")}

InitOutput ==
    /\ config \in ConfigsOutput
    /\ MainAtStart
    /\ TimeIdle
    /\ FormatIdle
    /\ StatusIdle

SpecOutput == InitOutput /\ [][Next]_vars

\* every setting of timestamp and song_time
ConfigsClock ==
    {[defaults EXCEPT !.interval = i, !.timestamp = ts, !.song_time = st] :
        i \in {1}, ts \in BOOLEAN, st \in BOOLEAN}

InitClock ==
    /\ config \in ConfigsClock
    /\ MainAtStart
    /\ TimeIdle
    /\ FormatIdle
    /\ StatusIdle

SpecClock == InitClock /\ [][Next]_vars

-----------------------------------------------------------------------------
(* The poll loop: properties *)

\* the push period the code arrives at, in iterations: 10 per second of
\* min(interval, 5), and every iteration when that is not positive
PushPeriod ==
    IF config.interval >= 5 THEN 50
    ELSE IF config.interval >= 1 THEN 10 * config.interval
    ELSE 1

\* C1 as stated, at the default interval: while every probe returns the
\* initial (path, playing) pair, the N iterations run so far made exactly one
\* push, the first one's.
C1_OnePushWhileSame ==
    (config.interval = 15 /\ same_ticks >= 1) => same_pushes = 1

\* C1 amended: while every probe returns the initial (path, playing) pair, the
\* pushes are made exactly in the iterations 0, P, 2P, ... from loop entry, one
\* each, P the push period: N completed iterations made (N-1) div P + 1 pushes.
C1_PushEveryPeriodWhileSame ==
    same_ticks >= 1 =>
        /\ same_pushes = ((same_ticks - 1) \div PushPeriod) + 1
        /\ last.pushed <=> ((same_ticks - 1) % PushPeriod = 0)

\* C1 witness: 51 iterations with identical probes under the default interval,
\* the 51st having pushed again.
C1_Witness ==
    /\ config.interval = 15
    /\ same_ticks = 51
    /\ same_pushes = 2
    /\ last.pushed

\* the probes of the latest iteration that returned an absent path
AbsentProbes == {i \in DOMAIN last.probes : last.probes[i].path = None}

\* the latest iteration probed, and the probe it acted on is its last
LastProbe == last.probes[Len(last.probes)]

\* C2 as stated: a process that ended on one of the three exit paths after
\* the connection was established has released it exactly once.
C2_ClosedOnceOnEveryExit ==
    (/\ pc = "exited"
     /\ connect_ok = <<TRUE>>
     /\ how \in {"player_lost", "link_lost", "sigint"})
    => (closes = 1 /\ ~rpc_open)

\* C3 as stated, at the default interval: after a successful push, an
\* iteration in which a probe returned an absent path ends the loop without
\* a push.
C3_AnyAbsentProbeEndsLoop ==
    (config.interval = 15 /\ last.had_push /\ AbsentProbes # {})
    => (pc # "loop" /\ ~last.pushed)

\* C3 amended: after a successful push, an iteration whose last probe returned
\* an absent path ends the loop in that iteration without a push, and once
\* the loop has ended no push is made.
C3_LastAbsentProbeEndsLoop ==
    [][/\ (/\ last'.had_push
           /\ last'.probes # <<>>
           /\ last'.probes[Len(last'.probes)].path = None)
          => (pc' # "loop" /\ pushes' = pushes /\ ~last'.pushed)
       /\ pc # "loop" => pushes' = pushes]_vars

\* C3 witness: a session that had pushed, and whose latest probe came back
\* absent, is on its way to the teardown.
C3_Witness ==
    /\ last.had_push
    /\ last.probes # <<>>
    /\ LastProbe.path = None
    /\ pc = "closing"
    /\ how = "player_lost"

\* C4 as stated, at the default interval: an iteration whose probe returned a
\* present path with a changed (path, playing) pair reset the counter, made
\* one push built from the new record, and recorded the new pair.
C4_ChangePushesOnce ==
    (/\ config.interval = 15
     /\ last.probes # <<>>
     /\ last.changed
     /\ LastProbe.path # None)
    => /\ last.pushed
       /\ last_push # <<>>
       /\ last_push[1].path = LastProbe.path
       /\ last_push[1].playing = LastProbe.playing
       /\ song_path_old = LastProbe.path
       /\ playing_old = LastProbe.playing
       /\ timer <= 1

\* C5 as stated: a process that ended after one of the four failure conditions
\* (the initial probe gave no path, the connect failed, a push failed, a probe
\* in the loop gave no path) ended with status 0.
C5_FailuresExitZero ==
    (/\ pc = "exited"
     /\ \/ (init_query # <<>> /\ (init_query[1].err \/ ~init_query[1].has_file))
        \/ connect_ok = <<FALSE>>
        \/ (last_push # <<>> /\ ~last_push[1].ok)
        \/ how \in {"player_lost", "probe_raised"})
    => exit_status = 0

\* the number of ":" in a string
RECURSIVE Colons(_)
Colons(s) ==
    IF s = "" THEN 0
    ELSE (IF SubSeq(s, 1, 1) = ":" THEN 1 ELSE 0) + Colons(Tail(s))

\* C6 as stated: to_h_m_s gives minutes:seconds, with one colon, below 3600
\* seconds and hours:MM:SS, with two, from 3600 on; 0, 65, 3599 and 3600 give
\* "0:00", "1:05", "59:59" and "1:00:00".
C6_HoursOmittedWhenZero ==
    hms # <<>> =>
        /\ Colons(hms[1]) = IF secs < 3600 THEN 1 ELSE 2
        /\ secs = 0 => hms[1] = "0:00"
        /\ secs = 65 => hms[1] = "1:05"
        /\ secs = 3599 => hms[1] = "59:59"
        /\ secs = 3600 => hms[1] = "1:00:00"

\* the key letters of custom_format and the text each stands for
KeyText(k, d) ==
    CASE k = "a" -> d.artist
      [] k = "l" -> d.album
      [] k = "t" -> d.title
      [] k = "g" -> d.genre
      [] k = "y" -> d.date
      [] k = "u" -> to_h_m_s(d.duration)
      [] k = "p" -> to_h_m_s(d.position)

\* one pass over the template from the left: "%%" gives "%", "%" and a key
\* letter give the key's text unchanged, any other character gives itself
RECURSIVE OnePass(_, _)
OnePass(s, d) ==
    IF Len(s) < 2 THEN s
    ELSE IF SubSeq(s, 1, 2) = "%%"
    THEN "%" \o OnePass(SubSeq(s, 3, Len(s)), d)
    ELSE IF SubSeq(s, 1, 1) = "%" /\ SubSeq(s, 2, 2) \in {"a", "l", "t", "g", "y", "u", "p"}
    THEN KeyText(SubSeq(s, 2, 2), d) \o OnePass(SubSeq(s, 3, Len(s)), d)
    ELSE SubSeq(s, 1, 1) \o OnePass(Tail(s), d)

\* C7 as stated, for the records that hold no "%" before a key letter: in the
\* output of custom_format every "%%" of the template, paired from the left,
\* stands as one "%" in its place and every substituted value stands
\* unaltered, whatever "%" and "/" the values hold.
C7_EscapeSafe ==
    (out # <<>> /\ rec.artist = "Ar") => out[1] = OnePass(tpl, rec)

\* the string holds the character
RECURSIVE HasChar(_, _)
HasChar(s, c) ==
    IF s = "" THEN FALSE
    ELSE SubSeq(s, 1, 1) = c \/ HasChar(Tail(s), c)

\* the keyed replacements of custom_format made in the order keys gives,
\* between the two replacements of the escape
RECURSIVE KeyedInOrder(_, _, _)
KeyedInOrder(s, d, keys) ==
    IF keys = <<>> THEN s
    ELSE KeyedInOrder(replace(s, "%" \o Head(keys), KeyText(Head(keys), d)), d, Tail(keys))

FormatInOrder(s, d, keys) ==
    replace(KeyedInOrder(replace(s, "%%", "/%%/"), d, keys), "/%%/", "%")

\* C15 as stated, for the records that hold no "/": the output of
\* custom_format is that of one simultaneous substitution, in which
\* substituted text is not expanded again, and is the same when the keyed
\* placeholders are replaced in the opposite order.
C15_OrderIndependent ==
    (out # <<>> /\ ~HasChar(rec.title, "/")) =>
        /\ out[1] = OnePass(tpl, rec)
        /\ out[1] = FormatInOrder(tpl, rec, <<"p", "u", "y", "g", "t", "l", "a">>)

\* the hours, minutes and seconds a result of to_h_m_s shows, 0 hours for a
\* result without an hours segment
HoursShown(t) == IF Colons(t) = 2 THEN int(SubSeq(t, 1, Len(t) - 6)) ELSE 0

MinutesShown(t) == int(SubSeq(t, Len(t) - 4, Len(t) - 3))

SecondsShown(t) == int(SubSeq(t, Len(t) - 1, Len(t)))

\* C16 as stated: the hours to_h_m_s shows are min(seconds div 3600, 999), the
\* minutes (seconds div 60) mod 60, the seconds seconds mod 60.
C16_DaysAbsorbedIntoHours ==
    hms # <<>> =>
        /\ HoursShown(hms[1]) = Min(secs \div 3600, 999)
        /\ MinutesShown(hms[1]) = (secs \div 60) % 60
        /\ SecondsShown(hms[1]) = secs % 60

\* the buttons a configuration names: label and URL of the same button
FirstButton == [label |-> config.button_one, url |-> config.button_url_one]

SecondButton == [label |-> config.button_two, url |-> config.button_url_two]

\* C19 as stated: a push carries at most two buttons, each the first or the
\* second configured button with a label and a URL; with only the second
\* button configured it carries that one alone.
C19_ButtonsWellFormed ==
    last_push # <<>> =>
        LET bs == last_push[1].buttons IN
        /\ Len(bs) <= 2
        /\ \A i \in DOMAIN bs :
              /\ bs[i].label # ""
              /\ bs[i].url # ""
              /\ bs[i] \in {FirstButton, SecondButton}
        /\ (/\ config.button_one = "" /\ config.button_url_one = ""
            /\ config.button_two # "" /\ config.button_url_two # "")
           => bs = <<SecondButton>>

\* C11 as stated, at the default interval: a push carries the playing image
\* for a playing record and the paused image for any other, whatever the image
\* settings; an iteration that saw the track go from playing to paused pushed,
\* with the paused image.
C11_SmallImageFollowsPlaying ==
    config.interval = 15 =>
    /\ last_push # <<>> =>
          last_push[1].small_image =
              (IF last_push[1].playing = "True" THEN config.playing_image
               ELSE config.paused_image)
    /\ (/\ last.changed
        /\ last.old_playing = "True"
        /\ LastProbe.path # None
        /\ LastProbe.playing = "False")
       => /\ last.pushed
          /\ last_push[1].small_image = config.paused_image

\* at most check_status - 1 iterations in a row made no probe
ProbeCadence == since_probe < check_status

\* an iteration entered with timer >= update_rpc probed
ForcedProbe == (last # NoTick /\ last.start >= update_rpc) => (last.raised \/ last.probes # <<>>)

\* C13 as stated, for the intervals of a second and more: at most 20
\* iterations pass from one probe to the next, an iteration entered after
\* min(interval, 5) seconds of iterations probes, and the iteration whose
\* probe returned a changed pair with a present path pushed it.
C13_PromptDetection ==
    config.interval >= 1 =>
    /\ ProbeCadence
    /\ ForcedProbe
    /\ (last.changed /\ LastProbe.path # None) =>
          /\ last.pushed
          /\ last_push[1].path = LastProbe.path
          /\ last_push[1].playing = LastProbe.playing

\* C12 as stated: each of the four messages is on standard output exactly
\* when its failure happened and silent is off or debug is on; with silent on
\* and debug off nothing is printed.
C12_ReportedUnlessSilent ==
    LET enabled == ~config.silent \/ config.debug IN
    /\ ("Cant connect to cmus, exitting..." \in stdout)
          <=> (enabled /\ init_query # <<>> /\ init_query[1].err)
    /\ ("Can't connect to Discord, exitting..." \in stdout)
          <=> (enabled /\ connect_ok = <<FALSE>>)
    /\ ("Connection to Discord lost, exitting..." \in stdout)
          <=> (enabled /\ last_push # <<>> /\ ~last_push[1].ok)
    /\ ("Connection to cmus lost, exitting..." \in stdout)
          <=> (/\ enabled
               /\ ~last.raised
               /\ last.probes # <<>>
               /\ not_song_path(LastProbe.path))
    /\ (config.silent /\ ~config.debug) => stdout = {}

\* silent and debug both on, the player lost in the loop, and reported
C12_Witness ==
    /\ config.silent
    /\ config.debug
    /\ pc = "closing"
    /\ last.probes # <<>>
    /\ LastProbe.path = None
    /\ "Connection to cmus lost, exitting..." \in stdout

\* C14 as stated: with timestamp on and song_time off a push carries the
\* start computed at loop entry; with both on, the clock reading of the push
\* less the position of the pushed record; with timestamp off, none.
C14_TimestampPolicy ==
    last_push # <<>> =>
        LET p == last_push[1] IN
        /\ (config.timestamp /\ ~config.song_time) =>
              (entry_time # <<>> /\ p.start = entry_time)
        /\ (config.timestamp /\ config.song_time) =>
              p.start = <<p.at - int(p.song_data[1].position)>>
        /\ ~config.timestamp => p.start = <<>>

\* both flags on, a later push of a record 65 seconds into the track, made
\* after the clock went on
C14_Witness ==
    /\ config.timestamp
    /\ config.song_time
    /\ pushes >= 2
    /\ last_push # <<>>
    /\ last_push[1].song_data[1].position = "65"
    /\ last_push[1].at > entry_time[1]
    /\ last_push[1].start = <<last_push[1].at - 65>>

\* C18 as stated: an iteration that pushed had probed, and pushed the path,
\* the playing flag and the record its last probe returned.
C18_PushFromSameTickProbe ==
    last.pushed =>
        /\ last.probes # <<>>
        /\ last_push[1].song_data = last.record
        /\ last_push[1].path = LastProbe.path
        /\ last_push[1].playing = LastProbe.playing

\* a periodic push at the default interval, in an iteration that probed twice
\* and got another track at the second probe
C18_Witness ==
    /\ config.interval = 15
    /\ last.pushed
    /\ last.start = 50
    /\ Len(last.probes) = 2
    /\ last.probes[1].path # last.probes[2].path
    /\ last_push[1].path = last.probes[2].path

\* C17 as stated, for the files title_from_path can take apart: a missing
\* artist or title tag counts as the placeholder in force, and when artist or
\* title is that placeholder the record returned holds the artist and the
\* title derived from the file path.
C17_FallbackForEitherPlaceholder ==
    (/\ probe # <<>>
     /\ ~query.answer.err
     /\ query.answer.file # None
     /\ ~title_from_path(query.answer.file).raised) =>
        LET a == query.answer
            artist0 == IF a.artist = <<>> THEN query.no_data ELSE a.artist[1]
            title0 == IF a.title = <<>> THEN query.no_data ELSE a.title[1]
            derived == title_from_path(a.file)
        IN  (artist0 = query.no_data \/ title0 = query.no_data) =>
               /\ ~probe[1].raised
               /\ probe[1].song_data[1].artist = derived.artist
               /\ probe[1].song_data[1].title = derived.title

\* C8 as stated: with a first button label and no first button URL, every
\* push carries no buttons.
C8_NoButtonsWithoutFirstUrl ==
    (/\ config.button_one # ""
     /\ config.button_url_one = ""
     /\ last_push # <<>>)
    => last_push[1].buttons = <<>>

\* C9 as stated, for the positive intervals: a push made with no state change,
\* after an earlier push, comes at least 50 iterations (5 s) after that push
\* (the counter an iteration starts with counts the iterations since it).
C9_RefreshAtLeast5s ==
    (config.interval >= 1 /\ last.pushed /\ ~last.changed /\ pushes >= 2)
    => last.start >= 50

\* C10: an initial probe without a path ends the process with no connect
\* attempt and no push; a failed connect ends it with no push; connect is
\* attempted at most once; a push implies a successful probe and connect.
C10_StartupOrder ==
    /\ connects <= 1
    /\ (init_query # <<>> /\ (init_query[1].err \/ ~init_query[1].has_file))
        => (pc = "exited" /\ connects = 0 /\ pushes = 0 /\ connect_ok = <<>>)
    /\ connect_ok = <<FALSE>> => (pc = "exited" /\ connects = 1 /\ pushes = 0)
    /\ pushes > 0 =>
        /\ init_query = <<[err |-> FALSE, has_file |-> TRUE]>>
        /\ connect_ok = <<TRUE>>
        /\ connects = 1

\* C10 witness: the initial probe returned a path, the one connect attempt
\* failed, and the process ended without a push.
C10_Witness ==
    /\ pc = "exited"
    /\ init_query = <<[err |-> FALSE, has_file |-> TRUE]>>
    /\ connect_ok = <<FALSE>>
    /\ connects = 1
    /\ pushes = 0

====
